---------------------------- MODULE Spec2Model ----------------------------
(***************************************************************************)
(* A model of src/script.js: the DOMContentLoaded callback of the          *)
(* portfolio page.  It covers the theme store (setTheme, the theme         *)
(* initialisation and the toggle's click handler) and the project list     *)
(* (showLoading, displayError, fetchProjects, the sort control's change    *)
(* handler and the initial fetch).                                         *)
(*                                                                         *)
(* fetchProjects is an async function with two suspension points, the      *)
(* await of fetch() and the await of response.json(); every stretch of     *)
(* code between two suspension points runs to completion on the event      *)
(* loop and is one action here.                                            *)
(***************************************************************************)
EXTENDS Integers, Sequences, FiniteSets, TLC

(***************************************************************************)
(* Bounds of the model.                                                    *)
(***************************************************************************)
\* the number of fetchProjects calls of one page load (the initial one included)
MaxFetches == 2
\* the longest JSON array a response body holds
MaxRecords == 2

(***************************************************************************)
(* Values of the program.                                                  *)
(***************************************************************************)
USERNAME == "AndyFerns"

\* JavaScript's null (localStorage.getItem of a missing key, a null JSON field)
Null == "<null>"

\* the attribute data-theme of the document before any script ran
NoAttribute == "<no attribute>"

\* what localStorage holds under 'theme' when the page is loaded: nothing, or
\* one of the two values setTheme writes
SavedThemes == {Null, "light", "dark"}

\* the options of the sort control
SortKeys == {"updated", "created", "full_name"}

\* response.status values the API answers with
Statuses == {200, 403, 404, 500}

\* Error.message of a rejected fetch(): the platform's text, which may be empty
NetworkMessages == {"Failed to fetch", ""}

\* JavaScript's undefined (a property the object does not have)
Undefined == "<undefined>"

\* JavaScript's truthiness of a value that is a string, null or undefined
Truthy(v) == v # Null /\ v # Undefined /\ v # ""

\* JavaScript's a || b
OrElse(a, b) == IF Truthy(a) THEN a ELSE b


(***************************************************************************)
(* The state.                                                              *)
(***************************************************************************)
VARIABLES
    booted,          \* the DOMContentLoaded callback has run
    localTheme,      \* localStorage's entry 'theme' (Null: no entry)
    prefersDark,     \* window.matchMedia('(prefers-color-scheme: dark)').matches
    dataTheme,       \* the attribute data-theme of document.documentElement
    ariaLabel,       \* the attribute aria-label of #theme-toggle
    sortValue,       \* sortSelect.value
    projectsContainer, \* the children of #projects-container, in document order
    errorContainer,  \* the children of #error-container
    fetches,         \* the fetchProjects calls so far, in the order they were made
    returned,        \* history: the call that returned last since the newest
                     \* call started (id 0: none has), the answer it got, the
                     \* statements it executed, the loading elements it
                     \* removed, and whether another call had returned before
                     \* it since the newest call started (stale)
    themeTrail       \* history: <<dataTheme, localTheme>> after the last theme
                     \* operations, the newest first, at most TrailLen of them

themeVars == <<localTheme, prefersDark, dataTheme, ariaLabel, themeTrail>>
fetchVars == <<sortValue, projectsContainer, errorContainer, fetches,
               returned>>
vars == <<booted, localTheme, prefersDark, dataTheme, ariaLabel, sortValue,
          projectsContainer, errorContainer, fetches, returned, themeTrail>>

\* how many theme operations themeTrail remembers: enough for a toggle and
\* its two predecessors
TrailLen == 3

(***************************************************************************)
(* 3. Theme toggling logic.                                                *)
(***************************************************************************)
\* setTheme with the labels of its two branches exchanged
setTheme_labelsExchanged(theme) ==
    IF theme = "dark"
    THEN [dataTheme |-> "dark", localTheme |-> "dark",
          ariaLabel |-> "Switch to dark mode"]
    ELSE [dataTheme |-> "light", localTheme |-> "light",
          ariaLabel |-> "Switch to light mode"]

\* setTheme with the dark branch persisting the wrong value
setTheme_darkSavedAsLight(theme) ==
    IF theme = "dark"
    THEN [dataTheme |-> "dark", localTheme |-> "light",
          ariaLabel |-> "Switch to light mode"]
    ELSE [dataTheme |-> "light", localTheme |-> "light",
          ariaLabel |-> "Switch to dark mode"]

\* setTheme(theme): the three attributes it writes
setTheme(theme) ==
    IF theme = "dark"
    THEN [dataTheme |-> "dark", localTheme |-> "dark",
          ariaLabel |-> "Switch to light mode"]
    ELSE [dataTheme |-> "light", localTheme |-> "light",
          ariaLabel |-> "Switch to dark mode"]

\* the initialisation ignoring the saved theme
initialTheme_ignoresSaved(savedTheme, dark) ==
    IF dark THEN "dark" ELSE "light"

\* the argument of the setTheme call of the initialisation
initialTheme(savedTheme, dark) ==
    IF Truthy(savedTheme) THEN savedTheme
    ELSE IF dark THEN "dark" ELSE "light"

\* the click handler with the branches of its conditional swapped
toggledTheme_swapped(currentTheme) ==
    IF currentTheme = "dark" THEN "dark" ELSE "light"

\* the argument of the setTheme call of the toggle's click handler
toggledTheme(currentTheme) ==
    IF currentTheme = "dark" THEN "light" ELSE "dark"

\* the first n elements of s, or all of s
Prefix(s, n) == SubSeq(s, 1, IF Len(s) < n THEN Len(s) ELSE n)

\* the assignments of one setTheme call
ApplyTheme(theme) ==
    LET t == setTheme(theme) IN
    /\ dataTheme' = t.dataTheme
    /\ localTheme' = t.localTheme
    /\ ariaLabel' = t.ariaLabel
    /\ themeTrail' = Prefix(<<(<<t.dataTheme, t.localTheme>>)>> \o themeTrail,
                            TrailLen)
    /\ UNCHANGED prefersDark

\* the click listener also emptying the error region
ThemeToggleClick_clearsError ==
    /\ booted
    /\ ApplyTheme(toggledTheme(dataTheme))
    /\ errorContainer' = <<>>
    /\ UNCHANGED <<booted, sortValue, projectsContainer, fetches, returned>>

\* themeToggle's click listener
ThemeToggleClick ==
    /\ booted
    /\ ApplyTheme(toggledTheme(dataTheme))
    /\ UNCHANGED <<booted, fetchVars>>

(***************************************************************************)
(* The API's answers.                                                      *)
(***************************************************************************)
\* repository objects of the API's array: one with description and language
\* null and both counts 0, one with every consumed field set
Repo1 ==
    [name |-> "repo1", description |-> Null, language |-> Null,
     html_url |-> "https://x/repo1", stargazers_count |-> 0,
     forks_count |-> 0]
Repo2 ==
    [name |-> "repo2", description |-> "A tool", language |-> "JavaScript",
     html_url |-> "https://x/repo2", stargazers_count |-> 7,
     forks_count |-> 2]

\* a repository object whose description is the empty string and which has
\* no property language
Repo3 ==
    [name |-> "repo3", description |-> "", language |-> Undefined,
     html_url |-> "https://x/repo3", stargazers_count |-> 1,
     forks_count |-> 0]

\* an array element that is JSON null
NullItem == [null |-> TRUE]

Items == {Repo1, Repo2, NullItem}

\* the sequences of distinct elements of S of length at most n (the API lists
\* no repository twice)
SeqUpTo(S, n) ==
    {s \in UNION {[1..k -> S] : k \in 0..n} :
        \A i, j \in DOMAIN s : s[i] = s[j] => i = j}

\* what response.json() settles with.  type "invalid": the body is not JSON
\* and the promise rejects.  hasLength/length: the value's property length.
JsonArray(items) ==
    [type |-> "array", hasLength |-> TRUE, length |-> Len(items),
     items |-> items]
InvalidJson ==
    [type |-> "invalid", hasLength |-> FALSE, length |-> 0, items |-> <<>>]
JsonNull ==
    [type |-> "null", hasLength |-> FALSE, length |-> 0, items |-> <<>>]
\* an object without a property length, such as {"message": "..."}
JsonObject ==
    [type |-> "object", hasLength |-> FALSE, length |-> 0, items |-> <<>>]
\* the object {"length": 0}
JsonLengthObject ==
    [type |-> "object", hasLength |-> TRUE, length |-> 0, items |-> <<>>]
\* the string ""
JsonEmptyString ==
    [type |-> "string", hasLength |-> TRUE, length |-> 0, items |-> <<>>]

Bodies ==
    {InvalidJson, JsonNull, JsonObject, JsonLengthObject, JsonEmptyString}
        \cup {JsonArray(items) : items \in SeqUpTo(Items, MaxRecords)}
        \cup {JsonArray(<<Repo3>>)}

\* response.ok
Ok(status) == 200 <= status /\ status <= 299

\* Error.message of what the engine throws
SyntaxErrorMessage == "Unexpected token < in JSON at position 0"
NullLengthMessage == "Cannot read properties of null (reading 'length')"
ForEachMessage == "projects.forEach is not a function"
NullItemMessage == "Cannot read properties of null (reading 'description')"

(***************************************************************************)
(* 4. API data fetching and display.                                       *)
(***************************************************************************)
\* the elements the script puts into the two containers
LoadingEl == [tag |-> "p", id |-> "loading-state", text |-> "Loading projects..."]
NoticeEl == [tag |-> "p", id |-> "", text |-> "No public repositories found."]
ErrorEl(message) == [tag |-> "p", id |-> "", text |-> message]

\* the card with the star count defaulted like the language, so that a
\* count of 0 is not shown
Card_zeroStarsDefaulted(project) ==
    [tag |-> "article", id |-> "", className |-> "project-card",
     h3 |-> project.name,
     p |-> OrElse(project.description, "No description provided."),
     language |-> OrElse(project.language, "N/A"),
     stars |-> IF project.stargazers_count = 0 THEN "N/A"
               ELSE ToString(project.stargazers_count),
     forks |-> ToString(project.forks_count),
     href |-> project.html_url,
     target |-> "_blank", rel |-> "noopener noreferrer"]

\* the article element of one project
Card(project) ==
    [tag |-> "article", id |-> "", className |-> "project-card",
     h3 |-> project.name,
     p |-> OrElse(project.description, "No description provided."),
     language |-> OrElse(project.language, "N/A"),
     stars |-> ToString(project.stargazers_count),
     forks |-> ToString(project.forks_count),
     href |-> project.html_url,
     target |-> "_blank", rel |-> "noopener noreferrer"]

\* the positions of the elements with id 'loading-state'
LoadingAt(container) ==
    {i \in 1..Len(container) : container[i].id = "loading-state"}

\* s without its i-th element
RemoveAt(s, i) == SubSeq(s, 1, i - 1) \o SubSeq(s, i + 1, Len(s))

\* the least element of a non-empty set of numbers
Least(S) == CHOOSE i \in S : \A j \in S : i <= j

\* showLoading adding the indicator after the children already there
showLoading_appends(container, isLoading) ==
    IF isLoading THEN Append(container, LoadingEl)
    ELSE IF LoadingAt(container) # {}
         THEN RemoveAt(container, Least(LoadingAt(container)))
         ELSE container

\* showLoading ignoring the call that hides the indicator
showLoading_neverHides(container, isLoading) ==
    IF isLoading THEN <<LoadingEl>> ELSE container

\* showLoading(isLoading), as a function of the container's children
showLoading(container, isLoading) ==
    IF isLoading THEN <<LoadingEl>>
    ELSE IF LoadingAt(container) # {}
         THEN RemoveAt(container, Least(LoadingAt(container)))
         ELSE container

\* displayError(message): the new children of the error container
displayError(message) == <<ErrorEl(message)>>

\* the status check without the branch for 404
errorMessage_no404(status) ==
    IF status = 403
    THEN "GitHub API rate limit exceeded. Please try again in a few minutes."
    ELSE "HTTP Error: " \o ToString(status)

\* the message fetchProjects throws for a response that is not ok
errorMessage(status) ==
    IF status = 403
    THEN "GitHub API rate limit exceeded. Please try again in a few minutes."
    ELSE IF status = 404
    THEN "GitHub user '" \o USERNAME \o "' not found."
    ELSE "HTTP Error: " \o ToString(status)

\* the direction with the comparison inverted
direction_inverted(sortBy) == IF sortBy # "full_name" THEN "asc" ELSE "desc"

\* the direction parameter of the request
direction(sortBy) == IF sortBy = "full_name" THEN "asc" ELSE "desc"

API_URL(sortBy) ==
    "https://api.github.com/users/" \o USERNAME \o "/repos?sort=" \o sortBy
        \o "&direction=" \o direction(sortBy)

(***************************************************************************)
(* The code of fetchProjects after its suspension points, as functions of  *)
(* a run: the children of the two containers on entry, the number of       *)
(* loading elements the call has removed and the statements it has         *)
(* executed (history).                                                     *)
(***************************************************************************)
Run(container, error, removed, log) ==
    [container |-> container, error |-> error, removed |-> removed,
     log |-> log]

\* showLoading(false) in a run
hideLoading(r) ==
    [r EXCEPT !.container = showLoading(@, FALSE),
              !.removed = @ + (IF LoadingAt(r.container) # {} THEN 1 ELSE 0),
              !.log = Append(@, "showLoading(false)")]

\* the catch block without its showLoading(false)
catch_keepsLoading(r, message) ==
    [r EXCEPT !.error = displayError(
                  OrElse(message, "Network error. Please check your connection.")),
              !.log = Append(@, "displayError")]

\* the catch block, entered with an Error whose message is message
catch(r, message) ==
    LET h == hideLoading(r) IN
    [h EXCEPT !.error = displayError(
                  OrElse(message, "Network error. Please check your connection.")),
              !.log = Append(@, "displayError")]

\* forEach putting every card before the cards already there
RECURSIVE forEach_prepends(_, _)
forEach_prepends(r, items) ==
    IF items = <<>> THEN r
    ELSE IF Head(items) = NullItem THEN catch(r, NullItemMessage)
    ELSE forEach_prepends(
             [r EXCEPT !.container = <<Card(Head(items))>> \o @,
                       !.log = Append(@, "card")],
             Tail(items))

\* projects.forEach(project => ...): a card per item, up to an item that
\* throws
RECURSIVE forEach(_, _)
forEach(r, items) ==
    IF items = <<>> THEN r
    ELSE IF Head(items) = NullItem THEN catch(r, NullItemMessage)
    ELSE forEach([r EXCEPT !.container = Append(@, Card(Head(items))),
                           !.log = Append(@, "card")],
                 Tail(items))

\* from the settling of fetch() with a response to the next suspension
\* point or the return
afterResponse(r, status) ==
    IF ~Ok(status) THEN catch(r, errorMessage(status))
    ELSE [r EXCEPT !.log = Append(@, "response.json")]

\* the code after response.json() without the test for an empty result
afterJson_noEmptyTest(r, projects) ==
    IF projects.type = "invalid" THEN catch(r, SyntaxErrorMessage)
    ELSE
      LET h == hideLoading(r) IN
      IF projects.type = "null" THEN catch(h, NullLengthMessage)
      ELSE
        LET c == [h EXCEPT !.container = <<>>, !.log = Append(@, "clear")] IN
        IF projects.type # "array" THEN catch(c, ForEachMessage)
        ELSE forEach(c, projects.items)

\* from the settling of response.json() to the return
afterJson(r, projects) ==
    IF projects.type = "invalid" THEN catch(r, SyntaxErrorMessage)
    ELSE
      LET h == hideLoading(r) IN
      IF projects.type = "null" THEN catch(h, NullLengthMessage)
      ELSE IF projects.hasLength /\ projects.length = 0
      THEN [h EXCEPT !.container = <<NoticeEl>>,
                     !.log = Append(@, "notice")]
      ELSE
        LET c == [h EXCEPT !.container = <<>>, !.log = Append(@, "clear")] IN
        IF projects.type # "array" THEN catch(c, ForEachMessage)
        ELSE forEach(c, projects.items)

\* the statements of fetchProjects before its first suspension point
StartLog == <<"showLoading(true)", "clearError", "fetch">>

\* an answer to a call: fetch() rejecting with an Error (status 0), or a
\* response with a status and, when the status is ok, what its body parses to
Rejection(message) ==
    [status |-> 0, message |-> message, projects |-> InvalidJson]
HttpError(status) ==
    [status |-> status, message |-> "", projects |-> InvalidJson]
Answer(status, projects) ==
    [status |-> status, message |-> "", projects |-> projects]

\* the code of a call from the settling of fetch() to its return, given the
\* answer
settle(r, answer) ==
    IF answer.status = 0 THEN catch(r, answer.message)
    ELSE IF ~Ok(answer.status) THEN afterResponse(r, answer.status)
    ELSE afterJson(afterResponse(r, answer.status), answer.projects)

\* no call has returned since the newest call started
NoReturn ==
    [id |-> 0, answer |-> Rejection(""), removed |-> 0, log |-> <<>>,
     stale |-> FALSE]

\* fetchProjects aborting the calls still in flight when it starts
FetchStart_abortsEarlier(sortBy) ==
    /\ projectsContainer' = showLoading(projectsContainer, TRUE)
    /\ errorContainer' = <<>>
    /\ fetches' = Append([f \in DOMAIN fetches |->
                             [fetches[f] EXCEPT !.pc = "done", !.status = 0]],
           [sortBy |-> sortBy, direction |-> direction(sortBy),
            url |-> API_URL(sortBy), pc |-> "awaitFetch", status |-> 0])
    /\ returned' = NoReturn

\* fetchProjects(sortBy) up to the await of fetch()
FetchStart(sortBy) ==
    /\ projectsContainer' = showLoading(projectsContainer, TRUE)
    /\ errorContainer' = <<>>
    /\ fetches' = Append(fetches,
           [sortBy |-> sortBy, direction |-> direction(sortBy),
            url |-> API_URL(sortBy), pc |-> "awaitFetch", status |-> 0])
    /\ returned' = NoReturn

\* the run of a call that has not touched the page since its start
RunOf(f) ==
    Run(projectsContainer, errorContainer, 0,
        IF fetches[f].pc = "awaitJson" THEN Append(StartLog, "response.json")
        ELSE StartLog)

\* call f returns after run r, which the answer caused
Return(f, r, answer) ==
    /\ projectsContainer' = r.container
    /\ errorContainer' = r.error
    /\ fetches' = [fetches EXCEPT ![f].pc = "done", ![f].status = 0]
    /\ returned' = [id |-> f, answer |-> answer, removed |-> r.removed,
                    log |-> r.log, stale |-> returned.id # 0]
    /\ UNCHANGED <<booted, sortValue, themeVars>>

(***************************************************************************)
(* The actions.                                                            *)
(***************************************************************************)
\* the DOMContentLoaded listener: theme initialisation, the two listeners,
\* the initial fetchProjects(sortSelect.value)
DOMContentLoaded ==
    /\ ~booted
    /\ booted' = TRUE
    /\ ApplyTheme(initialTheme(localTheme, prefersDark))
    /\ FetchStart(sortValue)
    /\ UNCHANGED sortValue

\* sortSelect's change listener, the user having selected key
SortChange(key) ==
    /\ booted
    /\ key # sortValue
    /\ Len(fetches) < MaxFetches
    /\ sortValue' = key
    /\ FetchStart(key)
    /\ UNCHANGED <<booted, themeVars>>

\* fetch() of call f rejects (no response was obtained)
FetchRejected(f, message) ==
    /\ fetches[f].pc = "awaitFetch"
    /\ Return(f, catch(RunOf(f), message), Rejection(message))

\* fetch() of call f settles with a response whose status is not ok
FetchHttpError(f, status) ==
    /\ fetches[f].pc = "awaitFetch"
    /\ ~Ok(status)
    /\ Return(f, afterResponse(RunOf(f), status), HttpError(status))

\* fetch() of call f settles with an ok response: on to response.json()
FetchResponded(f, status) ==
    /\ fetches[f].pc = "awaitFetch"
    /\ Ok(status)
    /\ LET r == afterResponse(RunOf(f), status) IN
       /\ projectsContainer' = r.container
       /\ errorContainer' = r.error
       /\ fetches' = [fetches EXCEPT ![f].pc = "awaitJson",
                                     ![f].status = status]
    /\ UNCHANGED <<booted, sortValue, returned, themeVars>>

\* response.json() of call f settles
JsonSettled(f, projects) ==
    /\ fetches[f].pc = "awaitJson"
    /\ Return(f, afterJson(RunOf(f), projects),
              Answer(fetches[f].status, projects))

Init ==
    /\ booted = FALSE
    /\ localTheme \in SavedThemes
    /\ prefersDark \in BOOLEAN
    /\ dataTheme = NoAttribute
    /\ ariaLabel = NoAttribute
    /\ sortValue \in SortKeys
    /\ projectsContainer = <<>>
    /\ errorContainer = <<>>
    /\ fetches = <<>>
    /\ returned = NoReturn
    /\ themeTrail = <<(<<NoAttribute, localTheme>>)>>

Next ==
    \/ DOMContentLoaded
    \/ ThemeToggleClick
    \/ \E key \in SortKeys : SortChange(key)
    \/ \E f \in DOMAIN fetches, message \in NetworkMessages :
          FetchRejected(f, message)
    \/ \E f \in DOMAIN fetches, status \in Statuses :
          FetchHttpError(f, status)
    \/ \E f \in DOMAIN fetches, status \in Statuses :
          FetchResponded(f, status)
    \/ \E f \in DOMAIN fetches, projects \in Bodies :
          JsonSettled(f, projects)

Spec == Init /\ [][Next]_vars

\* a promise call f awaits settles and the call runs on
Settle(f) ==
    /\ f \in DOMAIN fetches
    /\ \/ \E message \in NetworkMessages : FetchRejected(f, message)
       \/ \E status \in Statuses : FetchHttpError(f, status)
       \/ \E status \in Statuses : FetchResponded(f, status)
       \/ \E projects \in Bodies : JsonSettled(f, projects)

(***************************************************************************)
(* The vocabulary of the properties.                                       *)
(***************************************************************************)
\* the loading indicator is displayed
LoadingShown == LoadingAt(projectsContainer) # {}

\* the cards of a container, in document order
IsCard(el) == el.tag = "article"
CardsOf(container) == SelectSeq(container, IsCard)

\* the no-repositories notice is displayed in a container
NoticeIn(container) == \E i \in DOMAIN container : container[i] = NoticeEl

\* the text the error region shows ("" when it is empty)
ErrorText == IF errorContainer = <<>> THEN "" ELSE errorContainer[1].text

\* how often a call executed a statement
Count(log, statement) == Cardinality({i \in DOMAIN log : log[i] = statement})

\* the call put the notice or a card into the container
Rendered(log) == Count(log, "notice") + Count(log, "card") > 0

\* the call's displayError calls
Errored(log) == Count(log, "displayError") > 0

\* the kinds of answer of section 7: no response, a status that is not ok, a
\* body that is not JSON or not an array; and the success, an array of
\* repository objects
NetworkFailure(answer) == answer.status = 0
HttpFailure(answer) == answer.status # 0 /\ ~Ok(answer.status)
DecodeFailure(answer) ==
    Ok(answer.status) /\ answer.projects.type # "array"
Failure(answer) ==
    NetworkFailure(answer) \/ HttpFailure(answer) \/ DecodeFailure(answer)
Success(answer) ==
    /\ Ok(answer.status)
    /\ answer.projects.type = "array"
    /\ \A i \in DOMAIN answer.projects.items :
          answer.projects.items[i] # NullItem

\* a call has just returned: nothing has touched the two containers since
JustReturned == returned.id # 0

\* every call made so far has returned
AllReturned ==
    /\ fetches # <<>>
    /\ \A f \in DOMAIN fetches : fetches[f].pc = "done"

\* what a call with the given answer shows when no other call touches the
\* page: its own start, then the code after its suspension points
Fresh == Run(showLoading(<<>>, TRUE), <<>>, 0, StartLog)
OutcomeOf(answer) ==
    LET r == settle(Fresh, answer) IN
    [container |-> r.container, error |-> r.error]

(***************************************************************************)
(* The properties.  A property of "every call" is stated of the call that  *)
(* has just returned: every call is that call in the state its return      *)
(* leaves, and the invariant is checked in every reachable state.          *)
(***************************************************************************)

\* C1: after the initialisation and after every toggle, the theme applied to
\* the document (data-theme) equals the theme persisted under 'theme'.
C1_AppliedIsPersisted ==
    booted => /\ dataTheme = localTheme
              /\ themeTrail[1] = <<dataTheme, localTheme>>

\* C1, its case: a dark theme applied by a toggle after an initialisation
\* that found 'light' persisted.
C1_Witness ==
    /\ booted
    /\ Len(themeTrail) = 3
    /\ themeTrail[3] = <<NoAttribute, "light">>
    /\ dataTheme = "dark"
    /\ localTheme = "dark"

\* C2 as claimed: when two calls were in flight at once and both have
\* returned, the view (container and error region) is what the call that
\* returned last shows.
C2_LastResolvedWinsView ==
    (AllReturned /\ JustReturned /\ returned.stale)
        => [container |-> projectsContainer, error |-> errorContainer]
               = OutcomeOf(returned.answer)

\* C3 as claimed: every call removes a loading indicator exactly once when
\* it returns, whatever other calls are in flight.
C3_RemovedExactlyOnce ==
    JustReturned => returned.removed = 1

\* C3 as amended: every call, whatever its answer, calls showLoading(false)
\* when it returns and leaves no loading indicator; it removes the indicator
\* once when no other call has returned since the newest call started, and
\* finds none to remove when one has; it never removes two.
C3_ClearedOnReturn ==
    JustReturned =>
        /\ Count(returned.log, "showLoading(false)") >= 1
        /\ ~LoadingShown
        /\ returned.removed = (IF returned.stale THEN 0 ELSE 1)

\* C3, its case: of two calls in flight at once, the one that returns second
\* (here with a network failure) finds no indicator to remove.
C3_Witness ==
    /\ JustReturned
    /\ returned.stale
    /\ NetworkFailure(returned.answer)
    /\ returned.removed = 0
    /\ ~LoadingShown

\* the positions of a statement in a log
At(log, statement) == {i \in DOMAIN log : log[i] = statement}

\* every occurrence of statement a in the log precedes every occurrence of b
Precedes(log, a, b) == \A i \in At(log, a), j \in At(log, b) : i < j

\* C4 as claimed: every call clears the prior error and shows the loading
\* indicator before it awaits the request; after the request resolves it
\* hides the loading indicator; then exactly one of render (on success) or
\* show-error (on failure) happens, never both and never neither.
C4_FetchSequence ==
    JustReturned =>
        LET log == returned.log IN
        /\ Count(log, "showLoading(true)") = 1
        /\ Count(log, "clearError") = 1
        /\ Count(log, "fetch") = 1
        /\ Precedes(log, "showLoading(true)", "fetch")
        /\ Precedes(log, "clearError", "fetch")
        /\ At(log, "showLoading(false)") # {}
        /\ \A i \in At(log, "showLoading(false)") : i > Least(At(log, "fetch"))
        /\ \A statement \in {"notice", "card", "displayError"} :
              \A j \in At(log, statement) :
                  Least(At(log, "showLoading(false)")) < j
        /\ Rendered(log) # Errored(log)
        /\ Success(returned.answer) => Rendered(log)
        /\ Failure(returned.answer) => Errored(log)

\* C5 as claimed: once a call answered with status 403 has been handled, the
\* error region shows the rate-limit message, the loading indicator is not
\* displayed and the projects container holds no cards.
C5_RateLimited ==
    (JustReturned /\ returned.answer.status = 403) =>
        /\ ErrorText
             = "GitHub API rate limit exceeded. Please try again in a few minutes."
        /\ ~LoadingShown
        /\ CardsOf(projectsContainer) = <<>>

\* C6: for every status that is not a success, the message shown once the
\* call has been handled is determined by the status: the rate-limit message
\* for 403, a message with the configured username and 'not found' for 404,
\* 'HTTP Error: s' for any other status s; the loading indicator is removed.
C6_MessageByStatus ==
    (JustReturned /\ HttpFailure(returned.answer)) =>
        LET status == returned.answer.status IN
        /\ Len(errorContainer) = 1
        /\ status = 403 =>
             ErrorText
               = "GitHub API rate limit exceeded. Please try again in a few minutes."
        /\ status = 404 =>
             ErrorText = "GitHub user '" \o USERNAME \o "' " \o "not found" \o "."
        /\ status \notin {403, 404} =>
             ErrorText = "HTTP Error: " \o ToString(status)
        /\ ~LoadingShown

\* C6, its case: a call answered 404 has been handled while another call
\* had already rendered.
C6_Witness ==
    /\ JustReturned
    /\ returned.answer.status = 404
    /\ returned.stale
    /\ ErrorText = "GitHub user 'AndyFerns' not found."

\* C7 as claimed: every call issues exactly one request, and each of the
\* three kinds of failure ends the call: nothing is requested again, and the
\* failure surfaces as exactly one message in the error region.
C7_OneRequestOneMessage ==
    JustReturned =>
        /\ Count(returned.log, "fetch") = 1
        /\ fetches[returned.id].pc = "done"
        /\ Failure(returned.answer) =>
              /\ Count(returned.log, "displayError") = 1
              /\ Len(errorContainer) = 1

\* C8 as claimed: a response with a success status whose body is not JSON or
\* not a JSON array ends the call in an error: a message is shown in the
\* error region, and the call renders neither cards nor the notice.
C8_DecodeFailure ==
    (JustReturned /\ DecodeFailure(returned.answer)) =>
        /\ Errored(returned.log)
        /\ ErrorText # ""
        /\ ~Rendered(returned.log)
        /\ CardsOf(projectsContainer) = <<>>
        /\ ~NoticeIn(projectsContainer)

\* the value a toggle turns a theme into
Flipped(theme) == IF theme = "light" THEN "dark" ELSE "light"

\* C9: a toggle flips the applied theme between light and dark, and the
\* initialisation followed by two toggles (as any theme operation followed
\* by two toggles) restores the applied and the persisted theme.
C9_ToggleRoundTrip ==
    booted =>
        /\ \A i \in 1..(Len(themeTrail) - 1) :
              themeTrail[i + 1][1] # NoAttribute =>
                  /\ themeTrail[i + 1][1] \in {"light", "dark"}
                  /\ themeTrail[i][1] = Flipped(themeTrail[i + 1][1])
        /\ \A i \in 1..(Len(themeTrail) - 2) :
              themeTrail[i + 2][1] # NoAttribute =>
                  themeTrail[i] = themeTrail[i + 2]

\* C9, its case: two toggles after a theme operation that applied dark.
C9_Witness ==
    /\ booted
    /\ Len(themeTrail) = 3
    /\ themeTrail[3] = <<"dark", "dark">>
    /\ themeTrail[2] = <<"light", "light">>
    /\ dataTheme = "dark"
    /\ localTheme = "dark"

\* the state the initialisation has left: no toggle has followed it
JustInitialised ==
    booted /\ Len(themeTrail) = 2 /\ themeTrail[2][1] = NoAttribute

\* C10: the initialisation resolves the theme to the persisted value if
\* there is one, else to dark if the platform prefers dark, else to light;
\* it applies and persists the resolved value, and from then on the
\* persisted value is one of light and dark.
C10_InitialTheme ==
    /\ JustInitialised =>
          LET saved == themeTrail[2][2]
              resolved == IF saved # Null THEN saved
                          ELSE IF prefersDark THEN "dark" ELSE "light"
          IN  dataTheme = resolved /\ localTheme = resolved
    /\ booted => localTheme \in {"light", "dark"}

\* C10, its case: no persisted theme and a platform that prefers dark.
C10_Witness ==
    /\ JustInitialised
    /\ themeTrail[2][2] = Null
    /\ prefersDark
    /\ dataTheme = "dark"
    /\ localTheme = "dark"

\* C11: after the initialisation the toggle's accessible label names the
\* opposite of the applied theme, the theme the next click will apply.
C11_LabelNamesNextTheme ==
    booted =>
        /\ dataTheme = "dark" => ariaLabel = "Switch to light mode"
        /\ dataTheme = "light" => ariaLabel = "Switch to dark mode"
        /\ ariaLabel = "Switch to " \o toggledTheme(dataTheme) \o " mode"

\* C11, its case: a toggle has applied dark after light, and the label
\* names light.
C11_Witness ==
    /\ booted
    /\ Len(themeTrail) >= 2
    /\ themeTrail[2] = <<"light", "light">>
    /\ dataTheme = "dark"
    /\ ariaLabel = "Switch to light mode"

\* C12: the direction parameter of every request is ascending if and only
\* if the call's sort key is full_name and descending otherwise; the sort
\* parameter is the key the call was made with, which for the newest call
\* is the key the sort control holds.
C12_DirectionBySortKey ==
    /\ \A f \in DOMAIN fetches :
          /\ fetches[f].direction = "asc" <=> fetches[f].sortBy = "full_name"
          /\ fetches[f].direction = "desc" <=> fetches[f].sortBy # "full_name"
          /\ \E d \in {"asc", "desc"} :
                /\ d = fetches[f].direction
                /\ fetches[f].url
                     = "https://api.github.com/users/AndyFerns/repos?sort="
                         \o fetches[f].sortBy \o "&direction=" \o d
    /\ fetches # <<>> => fetches[Len(fetches)].sortBy = sortValue

\* C12, its case: a call with the key full_name after a call with another
\* key.
C12_Witness ==
    /\ Len(fetches) = 2
    /\ fetches[1].sortBy = "created"
    /\ fetches[1].direction = "desc"
    /\ fetches[2].sortBy = "full_name"
    /\ fetches[2].direction = "asc"

\* C13: when a call succeeds with an empty array, the container then holds
\* exactly the no-repositories notice: no card, no loading indicator.
C13_EmptyResult ==
    (JustReturned /\ Success(returned.answer)
        /\ returned.answer.projects.items = <<>>) =>
        /\ projectsContainer = <<NoticeEl>>
        /\ CardsOf(projectsContainer) = <<>>
        /\ ~LoadingShown

\* C13, its case: an empty array answers a call after another call, in
\* flight at the same time, has returned.
C13_Witness ==
    /\ JustReturned
    /\ returned.stale
    /\ returned.answer = Answer(200, JsonArray(<<>>))
    /\ projectsContainer = <<NoticeEl>>

\* C14: when a call succeeds with a non-empty array of repository objects,
\* the container then holds exactly one card per object, in the array's
\* order, and nothing else: no earlier card, notice or loading indicator,
\* no object twice or dropped.
C14_CardPerRecordInOrder ==
    (JustReturned /\ Success(returned.answer)
        /\ returned.answer.projects.items # <<>>) =>
        LET items == returned.answer.projects.items IN
        /\ Len(projectsContainer) = Len(items)
        /\ \A i \in DOMAIN items :
              /\ IsCard(projectsContainer[i])
              /\ projectsContainer[i].h3 = items[i].name
              /\ projectsContainer[i].href = items[i].html_url
        /\ Count(returned.log, "card") = Len(items)

\* C14, its case: two objects answer a call after another call, in flight at
\* the same time, has returned; their cards are in the array's order.
C14_Witness ==
    /\ JustReturned
    /\ returned.stale
    /\ returned.answer.projects = JsonArray(<<Repo2, Repo1>>)
    /\ Len(projectsContainer) = 2
    /\ projectsContainer[1].h3 = "repo2"
    /\ projectsContainer[2].h3 = "repo1"

\* the cards the call that has just returned put into the container, with
\* the array elements they were made from
RenderedPairs ==
    IF JustReturned /\ returned.answer.projects.type = "array"
    THEN {<<projectsContainer[i], returned.answer.projects.items[i]>> :
              i \in 1..Count(returned.log, "card")}
    ELSE {}

\* a card shows the name, the counts (0 included) and the link of its object
OwnValues(card, project) ==
    /\ card.h3 = project.name
    /\ card.stars = ToString(project.stargazers_count)
    /\ card.forks = ToString(project.forks_count)
    /\ project.stargazers_count = 0 => card.stars = "0"
    /\ project.forks_count = 0 => card.forks = "0"
    /\ card.href = project.html_url

\* C15 as claimed: a card shows the object's description, or exactly 'No
\* description provided.' when it is null or absent, and the object's
\* language, or exactly 'N/A' when it is null or absent; name, counts and
\* link are the object's own.
C15_DefaultsWhenNullOrAbsent ==
    \A pair \in RenderedPairs :
        LET card == pair[1]
            project == pair[2]
        IN  /\ card.p = (IF project.description \in {Null, Undefined}
                         THEN "No description provided."
                         ELSE project.description)
            /\ card.language = (IF project.language \in {Null, Undefined}
                                THEN "N/A" ELSE project.language)
            /\ OwnValues(card, project)

\* C15 as amended: the defaults are shown when the description or the
\* language is null, absent or the empty string.
C15_DefaultsWhenFalsy ==
    \A pair \in RenderedPairs :
        LET card == pair[1]
            project == pair[2]
        IN  /\ card.p = (IF project.description \in {Null, Undefined, ""}
                         THEN "No description provided."
                         ELSE project.description)
            /\ card.language = (IF project.language \in {Null, Undefined, ""}
                                THEN "N/A" ELSE project.language)
            /\ OwnValues(card, project)

\* C15, its case: the object of the scenario of section 8, with description
\* and language null and both counts 0, has been rendered.
C15_Witness ==
    /\ JustReturned
    /\ returned.answer = Answer(200, JsonArray(<<Repo1>>))
    /\ projectsContainer[1].h3 = "repo1"
    /\ projectsContainer[1].p = "No description provided."
    /\ projectsContainer[1].language = "N/A"
    /\ projectsContainer[1].stars = "0"
    /\ projectsContainer[1].forks = "0"
    /\ projectsContainer[1].href = "https://x/repo1"

\* the steps that start calls: the initial load starts exactly one, with
\* the key the sort control holds; a change of the selection starts exactly
\* one, with the new key; nothing else starts one; a start leaves the
\* earlier calls as they are, and no call is ever dropped
C16_Starts ==
    /\ (~booted /\ booted') =>
          /\ Len(fetches') = 1
          /\ fetches'[1].sortBy = sortValue
          /\ fetches'[1].pc = "awaitFetch"
    /\ sortValue' # sortValue =>
          /\ Len(fetches') = Len(fetches) + 1
          /\ fetches'[Len(fetches')].sortBy = sortValue'
          /\ fetches'[Len(fetches')].pc = "awaitFetch"
    /\ Len(fetches') # Len(fetches) =>
          /\ Len(fetches') = Len(fetches) + 1
          /\ ~booted \/ sortValue' # sortValue
          /\ \A f \in DOMAIN fetches : fetches'[f] = fetches[f]
    /\ DOMAIN fetches \subseteq DOMAIN fetches'

\* what the call that has just returned wrote is on the page: its message
\* if it displayed one, its notice or cards if it wrote the container
C16_Applied ==
    JustReturned =>
        LET outcome == OutcomeOf(returned.answer) IN
        /\ Errored(returned.log) => errorContainer = outcome.error
        /\ Count(returned.log, "notice") + Count(returned.log, "clear") > 0
              => projectsContainer = outcome.container

\* no call in flight is cancelled or suppressed: whatever has been started
\* or has returned since, the settling of the promise it awaits runs it on
C16_NoneSuppressed ==
    \A f \in DOMAIN fetches : fetches[f].pc # "done" => ENABLED Settle(f)

\* a call only advances: a step that moves it takes it to its next
\* suspension point or to its return, and moves no other call
C16_Advances ==
    \A f \in DOMAIN fetches :
        fetches'[f].pc # fetches[f].pc =>
            /\ fetches'[f].pc \in
                   IF fetches[f].pc = "awaitFetch" THEN {"awaitJson", "done"}
                   ELSE IF fetches[f].pc = "awaitJson" THEN {"done"} ELSE {}
            /\ \A g \in DOMAIN fetches \ {f} : fetches'[g] = fetches[g]

\* C16: the initial load and every change of the sort selection start
\* exactly one call each, with the key the control holds, and cancel or
\* suppress no call in flight: a call started stays two settlings at most
\* from its return, each of them possible whatever has been started or has
\* returned since, so that every call whose promises settle returns; and
\* what it wrote is on the page when it does, also after a later call has
\* been started or has returned.
C16_EveryCallStartedAndResolved ==
    /\ [][C16_Starts /\ C16_Advances]_vars
    /\ []C16_NoneSuppressed
    /\ []C16_Applied

\* C16, its case: the first of two calls returns after the second, started
\* later, has returned, and its card is on the page.
C16_Witness ==
    /\ Len(fetches) = 2
    /\ AllReturned
    /\ returned.id = 1
    /\ returned.stale
    /\ returned.answer.projects = JsonArray(<<Repo1>>)
    /\ CardsOf(projectsContainer) = <<Card(Repo1)>>


\* the theme store: the applied theme, the persisted theme, the toggle's
\* label; and the page of the fetch/render flow: the sort selection, the two
\* containers, the calls and their positions
C17_ThemeStore == <<dataTheme, localTheme, ariaLabel>>
C17_FetchFlow == <<sortValue, projectsContainer, errorContainer, fetches>>

\* C17: after the initial load (whose one listener both initialises the
\* theme and starts the first call), a step of the fetch/render flow (a
\* change of the sort selection, the start of a call, the settling of a
\* promise with a response, an error or a body) leaves the applied theme,
\* the persisted theme and the toggle's label as they are, and a step that
\* changes the theme (a toggle) leaves the projects container, the error
\* region, the sort selection and the calls in flight as they are.
C17_Independent ==
    [][booted =>
          /\ C17_FetchFlow' # C17_FetchFlow => C17_ThemeStore' = C17_ThemeStore
          /\ themeTrail' # themeTrail =>
                /\ C17_ThemeStore' # C17_ThemeStore
                /\ C17_FetchFlow' = C17_FetchFlow]_vars

\* C17, its case: the theme was toggled after the initial load, a second
\* call was started by a change of the selection, the first call has failed
\* with a message in the error region and the second is still in flight.
C17_Witness ==
    /\ Len(themeTrail) = 3
    /\ themeTrail[1] # themeTrail[2]
    /\ Len(fetches) = 2
    /\ fetches[2].pc = "awaitJson"
    /\ returned.id = 1
    /\ errorContainer # <<>>


\* C18 as claimed: the error region is non-empty only if the call that
\* returned last failed, and when it is non-empty the projects container
\* holds no card and no no-repositories notice.
C18_ErrorExcludesResults ==
    errorContainer # <<>> =>
        /\ JustReturned
        /\ ~Success(returned.answer)
        /\ CardsOf(projectsContainer) = <<>>
        /\ ~NoticeIn(projectsContainer)


\* the calls still in flight
Unresolved == {f \in DOMAIN fetches : fetches[f].pc # "done"}

\* C19 as claimed: while a call is in flight the container shows the
\* loading indicator and nothing else, and the indicator is displayed if and
\* only if some call is in flight.
C19_LoadingWhileInFlight ==
    booted =>
        /\ LoadingShown <=> Unresolved # {}
        /\ Unresolved # {} => projectsContainer = <<LoadingEl>>

\* C19 as amended: the loading indicator is displayed from the start of the
\* newest call until the first return of any call after that start.  While
\* it is displayed it is the container's only child and some call is in
\* flight.  A call is in flight without the indicator only when calls
\* overlapped: another call has returned since the newest call started.
C19_LoadingUntilFirstReturn ==
    booted =>
        /\ LoadingShown <=> ~JustReturned
        /\ LoadingShown =>
              /\ projectsContainer = <<LoadingEl>>
              /\ Unresolved # {}
        /\ (Unresolved # {} /\ ~LoadingShown) =>
              /\ Len(fetches) >= 2
              /\ returned.id \in DOMAIN fetches \ Unresolved
        /\ Len(fetches) = 1 => (LoadingShown <=> Unresolved # {})

\* C19, its case: the first of two calls has returned with a card while
\* the second is in flight, and the indicator is gone.
C19_Witness ==
    /\ Len(fetches) = 2
    /\ Unresolved = {2}
    /\ returned.id = 1
    /\ ~LoadingShown
    /\ CardsOf(projectsContainer) # <<>>

\* C20: once no call remains in flight the loading indicator is not
\* displayed, whatever the answers were and however the calls overlapped,
\* and an indicator that is absent stays absent until the next call starts:
\* only a step that starts a call displays it.
C20_NoStuckLoading ==
    /\ [](booted /\ Unresolved = {} => ~LoadingShown)
    /\ [][(~LoadingShown /\ LoadingShown')
             => Len(fetches') = Len(fetches) + 1]_vars

\* C20, its case: two overlapping calls have both returned, the last with
\* a network failure, and no indicator is displayed.
C20_Witness ==
    /\ Len(fetches) = 2
    /\ Unresolved = {}
    /\ returned.stale
    /\ NetworkFailure(returned.answer)
    /\ ~LoadingShown

=============================================================================
